---- MODULE Spec2Model ----
(***************************************************************************)
(* Model of go-rest-mqtt (src/main.go): a CRUD HTTP API, a periodic host   *)
(* sampler and an MQTT subscriber that all persist Measurement documents   *)
(* in one MongoDB collection.                                              *)
(*                                                                         *)
(* The collection, its reachability, the MQTT session, the position of     *)
(* main and the liveness of the process are the state; every handler and   *)
(* every loop iteration is one action.  Strings that the code parses (the  *)
(* hex id of the URL and of a JSON body) are sequences of one-character    *)
(* strings, ObjectIDs are 12-byte sequences, instants are nanoseconds and  *)
(* BSON datetimes are milliseconds, so that every conversion is computed.  *)
(***************************************************************************)
EXTENDS Integers, Sequences, FiniteSets, TLC

VARIABLES store, mongo, mqtt, mainpc, wg, proc, last, pure, inserted

vars == <<store, mongo, mqtt, mainpc, wg, proc, last, pure, inserted>>

(***************************************************************************)
(* Bounds of the model.                                                    *)
(***************************************************************************)
\* number of distinct ObjectIDs that clients and the id generator draw from,
\* hence the largest number of documents in the collection
MaxId == 2

(***************************************************************************)
(* Constants of the program and of the types it uses.                      *)
(***************************************************************************)
\* primitive.ObjectID is [12]byte
ObjectIDLen == 12
\* a BSON datetime counts milliseconds, a time.Time nanoseconds
NsPerMs == 1000000

(***************************************************************************)
(* Hex strings and ObjectIDs.                                              *)
(***************************************************************************)
hextable == <<"0","1","2","3","4","5","6","7","8","9","a","b","c","d","e","f">>

hextableUpper == <<"0","1","2","3","4","5","6","7","8","9","A","B","C","D","E","F">>

isHexChar(c) == \E i \in 1..16 : hextable[i] = c \/ hextableUpper[i] = c

fromHexChar(c) == (CHOOSE i \in 1..16 : hextable[i] = c \/ hextableUpper[i] = c) - 1

hexDecode(s) ==
    [i \in 1..(Len(s) \div 2) |-> 16 * fromHexChar(s[2*i - 1]) + fromHexChar(s[2*i])]

hexEncode(b) ==
    [i \in 1..(2 * Len(b)) |->
        IF i % 2 = 1 THEN hextable[(b[(i + 1) \div 2] \div 16) + 1]
                     ELSE hextable[(b[i \div 2] % 16) + 1]]

NilObjectID == [i \in 1..ObjectIDLen |-> 0]

IsZero(oid) == oid = NilObjectID

\* ObjectIDFromHex without the check of the characters: a digit that is not
\* hexadecimal counts as 0
ObjectIDFromHexUnchecked(s) ==
    IF Len(s) # 2 * ObjectIDLen THEN [err |-> TRUE, id |-> NilObjectID]
    ELSE [err |-> FALSE,
          id |-> hexDecode([i \in 1..Len(s) |-> IF isHexChar(s[i]) THEN s[i] ELSE "0"])]

\* primitive.ObjectIDFromHex: the string must be 24 hex characters
ObjectIDFromHex(s) ==
    IF Len(s) # 2 * ObjectIDLen THEN [err |-> TRUE, id |-> NilObjectID]
    ELSE IF \E i \in 1..Len(s) : ~isHexChar(s[i]) THEN [err |-> TRUE, id |-> NilObjectID]
    ELSE [err |-> FALSE, id |-> hexDecode(s)]

\* the ObjectIDs of the model: eleven zero bytes and a last byte 0xaa + n
OID(n) == [i \in 1..ObjectIDLen |-> IF i = ObjectIDLen THEN 170 + n ELSE 0]

Pool == {OID(n) : n \in 1..MaxId}

toUpper(s) ==
    [i \in 1..Len(s) |->
        IF \E k \in 1..16 : hextable[k] = s[i]
        THEN hextableUpper[CHOOSE k \in 1..16 : hextable[k] = s[i]]
        ELSE s[i]]

\* id strings a client puts in the URL: the hex of every id of the pool, an
\* upper-case spelling, a string one character short and a string of the
\* right length with a non-hex character
UrlIds ==
    {hexEncode(o) : o \in Pool}
    \cup {toUpper(hexEncode(OID(1)))}
    \cup {SubSeq(hexEncode(OID(1)), 1, 2 * ObjectIDLen - 1)}
    \cup {[hexEncode(OID(1)) EXCEPT ![1] = "g"]}

\* id strings a client puts in a JSON body
BodyIds ==
    {hexEncode(o) : o \in Pool}
    \cup {SubSeq(hexEncode(OID(1)), 1, 2 * ObjectIDLen - 1)}

(***************************************************************************)
(* Measurement, its JSON decoding and its BSON encoding.                   *)
(***************************************************************************)
\* sample readings of cpu and ram
Readings == {[cpu |-> 0, ram |-> 1], [cpu |-> 1, ram |-> 0]}

\* sample instants in nanoseconds: the timestamps clients send, on and off a
\* whole millisecond, and the later instants time.Now() returns
Times == {0, 1}

NowTimes == {NsPerMs, NsPerMs + 1}

\* a request body or message payload: wf is FALSE when the text is not JSON
\* or a field other than the id has the wrong type
NoBody == [wf |-> FALSE, hasId |-> FALSE, id |-> <<>>, timestamp |-> 0, cpu |-> 0, ram |-> 0]

Body(hasId, id, t, r) ==
    [wf |-> TRUE, hasId |-> hasId, id |-> id, timestamp |-> t, cpu |-> r.cpu, ram |-> r.ram]

Bodies ==
    {NoBody}
    \cup {Body(FALSE, <<>>, t, r) : t \in Times, r \in Readings}
    \cup {Body(TRUE, id, t, r) : id \in BodyIds, t \in Times, r \in Readings}

ZeroMeasurement == [ID |-> NilObjectID, Timestamp |-> 0, CPU |-> 0, RAM |-> 0]

\* ObjectID.UnmarshalJSON on a non-empty JSON string: the string must be
\* 24 hex characters
UnmarshalObjectID(s) == ObjectIDFromHex(s)

\* c.ShouldBindJSON(&measurement) and json.Unmarshal(payload, &measurement):
\* the struct has no json tags, so the keys id, timestamp, cpu and ram fill
\* the fields ID, Timestamp, CPU and RAM
DecodeJSON(b) ==
    IF ~b.wf THEN [err |-> TRUE, m |-> ZeroMeasurement]
    ELSE IF b.hasId /\ UnmarshalObjectID(b.id).err THEN [err |-> TRUE, m |-> ZeroMeasurement]
    ELSE [err |-> FALSE,
          m |-> [ID |-> IF b.hasId THEN UnmarshalObjectID(b.id).id ELSE NilObjectID,
                 Timestamp |-> b.timestamp, CPU |-> b.cpu, RAM |-> b.ram]]

\* ToBSON with the tags of cpu and ram exchanged
ToBSONSwapped(m) ==
    [hasId |-> ~IsZero(m.ID), _id |-> m.ID,
     timestamp |-> m.Timestamp \div NsPerMs, cpu |-> m.RAM, ram |-> m.CPU]

\* bson marshalling of a Measurement: _id is omitted when zero, the
\* timestamp becomes a datetime in milliseconds
ToBSON(m) ==
    [hasId |-> ~IsZero(m.ID), _id |-> m.ID,
     timestamp |-> m.Timestamp \div NsPerMs, cpu |-> m.CPU, ram |-> m.RAM]

DecodedBody == [b \in Bodies |-> DecodeJSON(b)]

\* bson unmarshalling of the stored document with _id = oid
FromBSON(oid, d) ==
    [ID |-> oid, Timestamp |-> d.timestamp * NsPerMs, CPU |-> d.cpu, RAM |-> d.ram]

\* the id strings and bodies of the model, parsed once
ParsedId == [s \in UrlIds \cup BodyIds |-> ObjectIDFromHex(s)]

Fields(d) == [timestamp |-> d.timestamp, cpu |-> d.cpu, ram |-> d.ram]

(***************************************************************************)
(* The collection: a function from the _id of each stored document to its  *)
(* fields.  Each operation returns the error it meets and the collection   *)
(* it leaves.                                                              *)
(***************************************************************************)
EmptyStore == [i \in {} |-> [timestamp |-> 0, cpu |-> 0, ram |-> 0]]

\* getMongoCollection: Connect and Ping fail when the server is unreachable
getMongoCollection(health) == [err |-> health = "down"]

Put(st, oid, f) == [i \in DOMAIN st \cup {oid} |-> IF i = oid THEN f ELSE st[i]]

\* collection.InsertOne: gen is the ObjectID the driver generates when the
\* document has no _id; the server rejects an _id that is already stored
InsertOne(health, st, d, gen) ==
    LET oid == IF d.hasId THEN d._id ELSE gen IN
    IF health # "up" THEN [err |-> "io", st |-> st, oid |-> NilObjectID]
    ELSE IF oid \in DOMAIN st THEN [err |-> "duplicate", st |-> st, oid |-> NilObjectID]
    ELSE [err |-> "none", st |-> Put(st, oid, Fields(d)), oid |-> oid]

\* FindOne with an empty filter: any stored document matches
FindOneAny(health, st, oid) ==
    IF health # "up" THEN [err |-> "io", m |-> ZeroMeasurement]
    ELSE IF DOMAIN st = {} THEN [err |-> "ErrNoDocuments", m |-> ZeroMeasurement]
    ELSE LET i == CHOOSE i \in DOMAIN st : TRUE IN [err |-> "none", m |-> FromBSON(i, st[i])]

\* collection.FindOne(filter _id = oid).Decode
FindOne(health, st, oid) ==
    IF health # "up" THEN [err |-> "io", m |-> ZeroMeasurement]
    ELSE IF oid \notin DOMAIN st THEN [err |-> "ErrNoDocuments", m |-> ZeroMeasurement]
    ELSE [err |-> "none", m |-> FromBSON(oid, st[oid])]

\* ReplaceOne that inserts the replacement when no document matches
ReplaceOneUpsert(health, st, oid, d) ==
    IF health # "up" THEN [err |-> "io", st |-> st]
    ELSE IF d.hasId /\ d._id # oid THEN [err |-> "immutable", st |-> st]
    ELSE [err |-> "none", st |-> Put(st, oid, Fields(d))]

\* collection.ReplaceOne(filter _id = oid, replacement): no document matched
\* is no error; the replacement may not carry another _id than the document
ReplaceOne(health, st, oid, d) ==
    IF health # "up" THEN [err |-> "io", st |-> st]
    ELSE IF oid \notin DOMAIN st THEN [err |-> "none", st |-> st]
    ELSE IF d.hasId /\ d._id # oid THEN [err |-> "immutable", st |-> st]
    ELSE [err |-> "none", st |-> Put(st, oid, Fields(d))]

\* collection.DeleteOne(filter _id = oid): no document matched is no error
DeleteOne(health, st, oid) ==
    IF health # "up" THEN [err |-> "io", st |-> st]
    ELSE [err |-> "none", st |-> [i \in DOMAIN st \ {oid} |-> st[i]]]

\* collection.Find(all) and cur.All into a nil slice: the slice stays nil
\* when the cursor holds no document
FindAll(health, st) ==
    IF health # "up" THEN [err |-> TRUE, null |-> TRUE, items |-> {}]
    ELSE [err |-> FALSE, null |-> DOMAIN st = {}, items |-> {FromBSON(i, st[i]) : i \in DOMAIN st}]

\* the ids primitive.NewObjectID can produce: none that is stored
FreshIds(st) == Pool \ DOMAIN st

\* the ids the driver may generate for the document d: one is generated only
\* when d carries no _id.  An insert that needs a generated id is not taken
\* once every id of the pool is stored
GenIds(st, d) == IF d.hasId THEN {NilObjectID} ELSE FreshIds(st)

(***************************************************************************)
(* Responses.  last records the operation that ran last, its inputs and    *)
(* its outcome; seq flips at every operation of the program.  A status of  *)
(* 0 means that no response was written.  oid is the id the operation      *)
(* addressed or assigned, and afterPost marks a GET of the id that the     *)
(* operation just before it, a POST answered 201, assigned.                *)
(***************************************************************************)
StatusOK == 200

StatusCreated == 201

StatusBadRequest == 400

StatusNotFound == 404

StatusInternalServerError == 500

NoOut == [null |-> FALSE, items |-> {}]

One(m) == [null |-> FALSE, items |-> {m}]

Rec(op, idstr, body, now, status, out, oid, err) ==
    [seq |-> 1 - last.seq, op |-> op, idstr |-> idstr, body |-> body, now |-> now,
     status |-> status, out |-> out, oid |-> oid, err |-> err,
     afterPost |-> op = "GET" /\ last.op = "POST" /\ last.status = StatusCreated /\ last.oid = oid]

Serving == proc = "running" /\ mainpc = "Run"

Init ==
    /\ store = EmptyStore
    /\ mongo = "up"
    /\ mqtt = "Connecting"
    /\ mainpc = "Run"
    /\ wg = 1
    /\ proc = "running"
    /\ last = [seq |-> 0, op |-> "none", idstr |-> <<>>, body |-> NoBody, now |-> 0,
               status |-> 0, out |-> NoOut, oid |-> NilObjectID, err |-> "none",
               afterPost |-> FALSE]
    /\ pure = TRUE
    /\ inserted = {}

\* every operation ends here: it leaves the collection st, rec as the record
\* of the operation, and the process alive or not.  pure and inserted keep
\* the documents inserted so far for as long as none was replaced or deleted
Finish(rec, st, alive) ==
    /\ last' = rec
    /\ store' = st
    /\ proc' = IF alive THEN proc ELSE "exited"
    /\ IF st = store THEN UNCHANGED <<pure, inserted>>
       ELSE IF pure /\ DOMAIN store \subseteq DOMAIN st /\ DOMAIN st # DOMAIN store
       THEN /\ pure' = TRUE
            /\ inserted' = inserted \cup {FromBSON(i, st[i]) : i \in DOMAIN st \ DOMAIN store}
       ELSE /\ pure' = FALSE
            /\ inserted' = {}
    /\ UNCHANGED <<mongo, mqtt, mainpc, wg>>

(***************************************************************************)
(* The HTTP handlers.                                                      *)
(***************************************************************************)
\* GET /measurements.  mongo.Connect does not contact the server, so its
\* error branch is not taken: an unreachable or failing server fails Find.
\* The deferred Disconnect may fail then, which is log.Fatal
getMeasurements ==
    /\ Serving
    /\ \E discErr \in (IF mongo = "up" THEN {FALSE} ELSE BOOLEAN) :
         LET r == FindAll(mongo, store) IN
         IF r.err
         THEN Finish(Rec("LIST", <<>>, NoBody, 0, StatusInternalServerError, NoOut,
                         NilObjectID, "io"), store, ~discErr)
         ELSE Finish(Rec("LIST", <<>>, NoBody, 0, StatusOK,
                         [null |-> r.null, items |-> r.items],
                         NilObjectID, "none"), store, ~discErr)

\* POST /measurements
createMeasurement(body) ==
    /\ Serving
    /\ LET d == DecodedBody[body] IN
       IF d.err
       THEN Finish(Rec("POST", <<>>, body, 0, StatusBadRequest, NoOut, NilObjectID, "body"),
                   store, TRUE)
       ELSE IF getMongoCollection(mongo).err
       THEN Finish(Rec("POST", <<>>, body, 0, 0, NoOut, NilObjectID, "unreachable"),
                   store, FALSE)
       ELSE \E gen \in GenIds(store, ToBSON(d.m)) :
              LET r == InsertOne(mongo, store, ToBSON(d.m), gen) IN
              IF r.err # "none"
              THEN Finish(Rec("POST", <<>>, body, 0, StatusInternalServerError, NoOut,
                              NilObjectID, r.err), store, TRUE)
              ELSE Finish(Rec("POST", <<>>, body, 0, StatusCreated, NoOut, r.oid, "none"),
                          r.st, TRUE)

\* GET /measurements/:id
getMeasurement(id) ==
    /\ Serving
    /\ LET o == ParsedId[id] IN
       IF o.err
       THEN Finish(Rec("GET", id, NoBody, 0, StatusBadRequest, NoOut, NilObjectID, "id"),
                   store, TRUE)
       ELSE IF getMongoCollection(mongo).err
       THEN Finish(Rec("GET", id, NoBody, 0, 0, NoOut, o.id, "unreachable"),
                   store, FALSE)
       ELSE LET r == FindOne(mongo, store, o.id) IN
            IF r.err = "ErrNoDocuments"
            THEN Finish(Rec("GET", id, NoBody, 0, StatusNotFound, NoOut, o.id, "none"),
                        store, TRUE)
            ELSE IF r.err # "none"
            THEN Finish(Rec("GET", id, NoBody, 0, StatusInternalServerError, NoOut,
                            o.id, r.err), store, TRUE)
            ELSE Finish(Rec("GET", id, NoBody, 0, StatusOK, One(r.m), o.id, "none"),
                        store, TRUE)

\* PUT /measurements/:id (the record of the operation keeps the id string
\* and the outcome, not the body)
updateMeasurement(id, body) ==
    /\ Serving
    /\ LET o == ParsedId[id]
           d == DecodedBody[body]
       IN
       IF o.err
       THEN Finish(Rec("PUT", id, NoBody, 0, StatusBadRequest, NoOut, NilObjectID, "id"),
                   store, TRUE)
       ELSE IF getMongoCollection(mongo).err
       THEN Finish(Rec("PUT", id, NoBody, 0, 0, NoOut, o.id, "unreachable"),
                   store, FALSE)
       ELSE IF d.err
       THEN Finish(Rec("PUT", id, NoBody, 0, StatusBadRequest, NoOut, o.id, "body"),
                   store, TRUE)
       ELSE LET r == ReplaceOne(mongo, store, o.id, ToBSON(d.m)) IN
            IF r.err # "none"
            THEN Finish(Rec("PUT", id, NoBody, 0, StatusInternalServerError, NoOut,
                            o.id, r.err), store, TRUE)
            ELSE Finish(Rec("PUT", id, NoBody, 0, StatusOK, NoOut, o.id, "none"), r.st, TRUE)

\* DELETE /measurements/:id
deleteMeasurement(id) ==
    /\ Serving
    /\ LET o == ParsedId[id] IN
       IF o.err
       THEN Finish(Rec("DELETE", id, NoBody, 0, StatusBadRequest, NoOut, NilObjectID, "id"),
                   store, TRUE)
       ELSE IF getMongoCollection(mongo).err
       THEN Finish(Rec("DELETE", id, NoBody, 0, 0, NoOut, o.id, "unreachable"),
                   store, FALSE)
       ELSE LET r == DeleteOne(mongo, store, o.id) IN
            IF r.err # "none"
            THEN Finish(Rec("DELETE", id, NoBody, 0, StatusInternalServerError, NoOut,
                            o.id, r.err), store, TRUE)
            ELSE Finish(Rec("DELETE", id, NoBody, 0, StatusOK, NoOut, o.id, "none"),
                        r.st, TRUE)

(***************************************************************************)
(* The background loops.  A status of 1 records a stored measurement, 2 an *)
(* error that was logged.                                                  *)
(***************************************************************************)
\* storeLocalMeasurement: the error of getMongoCollection is overwritten, so
\* an unreachable server leaves a nil collection and InsertOne panics
storeLocalMeasurement(health, st, cpu, ram, now, gen) ==
    IF getMongoCollection(health).err
    THEN [panic |-> TRUE, err |-> "unreachable", st |-> st, oid |-> NilObjectID]
    ELSE LET r == InsertOne(health, st,
                            ToBSON([ID |-> NilObjectID, Timestamp |-> now,
                                    CPU |-> cpu, RAM |-> ram]), gen)
         IN [panic |-> FALSE, err |-> r.err, st |-> r.st, oid |-> r.oid]

\* one tick of the loop of runResourceObserver
samplerTick(cpu, ram, sampleErr, now) ==
    /\ proc = "running"
    /\ LET b == Body(FALSE, <<>>, 0, [cpu |-> cpu, ram |-> ram]) IN
       IF sampleErr
       THEN Finish(Rec("TICK", <<>>, NoBody, now, 2, NoOut, NilObjectID, "sample"), store, TRUE)
       ELSE \E gen \in FreshIds(store) :
              LET r == storeLocalMeasurement(mongo, store, cpu, ram, now, gen) IN
              IF r.panic
              THEN Finish(Rec("TICK", <<>>, b, now, 0, NoOut, NilObjectID, r.err), store, FALSE)
              ELSE IF r.err # "none"
              THEN Finish(Rec("TICK", <<>>, b, now, 2, NoOut, NilObjectID, r.err), store, TRUE)
              ELSE Finish(Rec("TICK", <<>>, b, now, 1, NoOut, r.oid, "none"), r.st, TRUE)

\* storeMQTTMeasurement
storeMQTTMeasurement(health, st, m, gen) ==
    IF getMongoCollection(health).err
    THEN [fatal |-> TRUE, err |-> "unreachable", st |-> st, oid |-> NilObjectID]
    ELSE LET r == InsertOne(health, st, ToBSON(m), gen)
         IN [fatal |-> FALSE, err |-> r.err, st |-> r.st, oid |-> r.oid]

\* messageHandler, called for each message delivered on the subscribed topic
messageHandler(payload, now) ==
    /\ proc = "running"
    /\ mqtt = "Subscribed"
    /\ LET d == DecodedBody[payload] IN
       IF d.err
       THEN Finish(Rec("MSG", <<>>, payload, now, 2, NoOut, NilObjectID, "decode"), store, TRUE)
       ELSE \E gen \in GenIds(store, ToBSON(d.m)) :
              LET r == storeMQTTMeasurement(mongo, store, [d.m EXCEPT !.Timestamp = now], gen) IN
              IF r.fatal
              THEN Finish(Rec("MSG", <<>>, payload, now, 0, NoOut, NilObjectID, r.err),
                          store, FALSE)
              ELSE IF r.err # "none"
              THEN Finish(Rec("MSG", <<>>, payload, now, 2, NoOut, NilObjectID, r.err),
                          store, TRUE)
              ELSE Finish(Rec("MSG", <<>>, payload, now, 1, NoOut, r.oid, "none"), r.st, TRUE)

(***************************************************************************)
(* The subscriber, main and the environment.                               *)
(***************************************************************************)
\* runMQTT: client.Connect, then client.Subscribe, then select {}; a failure
\* of either is log.Fatal
runMQTT(connectOk, subscribeOk) ==
    /\ proc = "running"
    /\ mqtt = "Connecting"
    /\ IF connectOk /\ subscribeOk
       THEN mqtt' = "Subscribed" /\ proc' = proc
       ELSE mqtt' = mqtt /\ proc' = "exited"
    /\ UNCHANGED <<store, mongo, mainpc, wg, last, pure, inserted>>

\* main: router.Run returns (the server stopped or could not listen) and
\* main blocks in wg.Wait()
routerRunReturns ==
    /\ proc = "running"
    /\ mainpc = "Run"
    /\ mainpc' = "Wait"
    /\ UNCHANGED <<store, mongo, mqtt, wg, proc, last, pure, inserted>>

\* the MongoDB server becomes reachable, reachable but failing every
\* operation, or unreachable
mongoChanges(h) ==
    /\ proc = "running"
    /\ h # mongo
    /\ mongo' = h
    /\ UNCHANGED <<store, mqtt, mainpc, wg, proc, last, pure, inserted>>

\* Two specifications share the actions.  The handlers read and write only
\* the collection and its reachability, so the API is explored on its own,
\* and the background loops with main, the list and the delete endpoint.
\* the HTTP API over the collection
NextApi ==
    \/ getMeasurements
    \/ \E body \in Bodies : createMeasurement(body)
    \/ \E id \in UrlIds : getMeasurement(id)
    \/ \E id \in UrlIds, body \in Bodies : updateMeasurement(id, body)
    \/ \E id \in UrlIds : deleteMeasurement(id)
    \/ \E h \in {"up", "failing", "down"} : mongoChanges(h)

SpecApi == Init /\ [][NextApi]_vars

\* the sampler, the subscriber and main, with the list and delete endpoints
NextIngest ==
    \/ \E r \in Readings, sampleErr \in BOOLEAN, now \in NowTimes :
         samplerTick(r.cpu, r.ram, sampleErr, now)
    \/ \E payload \in Bodies, now \in NowTimes : messageHandler(payload, now)
    \/ \E connectOk \in BOOLEAN, subscribeOk \in BOOLEAN : runMQTT(connectOk, subscribeOk)
    \/ routerRunReturns
    \/ getMeasurements
    \/ \E id \in UrlIds : deleteMeasurement(id)
    \/ \E h \in {"up", "failing", "down"} : mongoChanges(h)

SpecIngest == Init /\ [][NextIngest]_vars

TypeOK ==
    /\ DOMAIN store \subseteq Pool
    /\ mongo \in {"up", "failing", "down"}
    /\ mqtt \in {"Connecting", "Subscribed"}
    /\ mainpc \in {"Run", "Wait"}
    /\ wg = 1
    /\ proc \in {"running", "exited"}
    /\ pure \in BOOLEAN

(***************************************************************************)
(* Properties.                                                             *)
(***************************************************************************)
\* the step is an operation of the program
Step == last'.seq # last.seq

HexChars == {hextable[i] : i \in 1..16} \cup {hextableUpper[i] : i \in 1..16}

\* a well-formed id string: 24 hexadecimal characters
WellFormedId(s) == Len(s) = 2 * ObjectIDLen /\ \A i \in 1..Len(s) : s[i] \in HexChars

\* the store operation of the step was not cut short by the store
StoreAnswered(r) == r.err \notin {"io", "unreachable"}

\* the step is a GET of the id that the POST just before it, answered 201,
\* assigned, and the store answers the read
GetAfterPost ==
    /\ Step
    /\ last.op = "POST" /\ last.status = StatusCreated
    /\ last'.op = "GET" /\ WellFormedId(last'.idstr) /\ hexDecode(last'.idstr) = last.oid
    /\ mongo = "up"

\* C1, as stated: a POST answered 201 followed by GET on the assigned id
\* returns 200 with a document whose timestamp, cpu and ram equal the posted
\* input
C1_RoundTripExact ==
    [][GetAfterPost =>
        /\ last'.status = StatusOK
        /\ \E m \in last'.out.items :
             /\ last'.out.items = {m}
             /\ m.Timestamp = last.body.timestamp
             /\ m.CPU = last.body.cpu
             /\ m.RAM = last.body.ram]_vars

\* C1, amended: a POST answered 201 followed by GET on the assigned id
\* returns 200 with a document whose cpu and ram equal the posted input and
\* whose timestamp is the posted timestamp cut to whole milliseconds
C1_RoundTripMillis ==
    [][GetAfterPost =>
        /\ last'.status = StatusOK
        /\ \E m \in last'.out.items :
             /\ last'.out.items = {m}
             /\ m.ID = last.oid
             /\ m.Timestamp = (last.body.timestamp \div NsPerMs) * NsPerMs
             /\ m.CPU = last.body.cpu
             /\ m.RAM = last.body.ram]_vars

\* a GET right after the POST that created its document returned that
\* document
C1_Witness ==
    /\ last.op = "GET" /\ last.afterPost /\ last.status = StatusOK
    /\ \E m \in last.out.items : m.Timestamp = 0 /\ m.CPU = 1 /\ m.RAM = 0

\* C2: POST ignores an id carried in the body: with the rest of the body
\* well formed and the store answering, the create succeeds and the id of
\* the stored document is not the one the client sent
C2_BodyIdIgnored ==
    (last.op = "POST" /\ last.body.wf /\ last.body.hasId /\ StoreAnswered(last)) =>
        /\ last.status = StatusCreated
        /\ WellFormedId(last.body.id) => last.oid # hexDecode(last.body.id)

\* C3: with only successful inserts and no replace or delete so far,
\* GET /measurements answered by the store returns 200 and a JSON array of
\* exactly the inserted documents, the empty array when there are none
C3_ListIsArrayOfInserts ==
    (last.op = "LIST" /\ last.err = "none" /\ pure) =>
        /\ last.status = StatusOK
        /\ ~last.out.null
        /\ last.out.items \subseteq inserted
        /\ Cardinality(last.out.items) = Cardinality(inserted)

\* with at least one insert and nothing replaced or deleted so far, a list
\* answered by the store is the array of exactly the inserted documents
C3_NonEmptyList ==
    (last.op = "LIST" /\ last.err = "none" /\ pure /\ inserted # {}) =>
        /\ last.status = StatusOK
        /\ ~last.out.null
        /\ last.out.items = inserted
        /\ Cardinality(inserted) = Cardinality(DOMAIN store)

\* C4: GET, PUT and DELETE /measurements/{id} with a malformed id answer
\* 400, whatever the body and the state of the store, and leave the
\* collection and the process as they were
C4_MalformedIdIs400 ==
    [][(Step /\ last'.op \in {"GET", "PUT", "DELETE"} /\ ~WellFormedId(last'.idstr)) =>
        /\ last'.status = StatusBadRequest
        /\ store' = store
        /\ proc' = proc]_vars

\* a PUT with a malformed id was answered 400 over a collection that holds a
\* document, with the store unreachable
C4_Witness ==
    /\ last.op = "PUT" /\ ~WellFormedId(last.idstr) /\ last.status = StatusBadRequest
    /\ Len(last.idstr) = 2 * ObjectIDLen
    /\ mongo = "down" /\ DOMAIN store # {}

\* C5: GET /measurements/{id} with a well-formed id, answered by the store,
\* returns 200 with the stored document when the id is in the collection and
\* 404 when it is not; and it returns 200 or 404 in no other case
C5_GetFindsExactly ==
    [][(Step /\ last'.op = "GET") =>
        LET oid == hexDecode(last'.idstr) IN
        /\ (WellFormedId(last'.idstr) /\ mongo = "up") =>
              IF oid \in DOMAIN store
              THEN /\ last'.status = StatusOK
                   /\ last'.out = [null |-> FALSE,
                                   items |-> {[ID |-> oid,
                                               Timestamp |-> store[oid].timestamp * NsPerMs,
                                               CPU |-> store[oid].cpu, RAM |-> store[oid].ram]}]
              ELSE last'.status = StatusNotFound /\ last'.out = NoOut
        /\ last'.status = StatusOK => (WellFormedId(last'.idstr) /\ oid \in DOMAIN store)
        /\ last'.status = StatusNotFound => (WellFormedId(last'.idstr) /\ oid \notin DOMAIN store)
        /\ store' = store]_vars

\* a GET with the upper-case spelling of a stored id returned its document
\* while another document was stored too
C5_Witness ==
    /\ last.op = "GET" /\ last.status = StatusOK
    /\ last.idstr # hexEncode(last.oid)
    /\ DOMAIN store # {last.oid}

\* C6: PUT and DELETE /measurements/{id} with a well-formed id that is not
\* in the collection leave the collection unchanged and never answer 404;
\* they answer 200 when the store answers and, for PUT, the body decodes
C6_AbsentIdIsSilent ==
    [][(Step /\ last'.op \in {"PUT", "DELETE"} /\ WellFormedId(last'.idstr)
             /\ hexDecode(last'.idstr) \notin DOMAIN store) =>
        /\ store' = store
        /\ last'.status # StatusNotFound
        /\ (mongo = "up" /\ last'.err # "body") => last'.status = StatusOK]_vars

\* a PUT on an id that is not stored was answered 200 over a collection that
\* holds another document
C6_Witness ==
    /\ last.op = "PUT" /\ last.status = StatusOK
    /\ last.oid \notin DOMAIN store /\ DOMAIN store # {}

\* C7: a store failure during POST, or GET, PUT or DELETE by id, becomes a
\* 500 response and the process keeps running
C7_StoreFailureIs500 ==
    [][(Step /\ last'.op \in {"POST", "GET", "PUT", "DELETE"} /\ ~StoreAnswered(last')) =>
        (last'.status = StatusInternalServerError /\ proc' = "running")]_vars

\* C8: with the store answering, a delivered message whose payload decodes
\* adds exactly one document, with the payload's cpu and ram and the time of
\* receipt; a payload that does not decode leaves the collection unchanged
C8_MessageStoresOne ==
    [][(Step /\ last'.op = "MSG" /\ mongo = "up") =>
        IF DecodeJSON(last'.body).err
        THEN store' = store
        ELSE \E oid \in DOMAIN store' \ DOMAIN store :
               /\ DOMAIN store' = DOMAIN store \cup {oid}
               /\ \A i \in DOMAIN store : store'[i] = store[i]
               /\ store'[oid] = [timestamp |-> last'.now \div NsPerMs,
                                 cpu |-> last'.body.cpu, ram |-> last'.body.ram]]_vars

\* C9: no sampler tick and no delivered message ends the process
C9_LoopsSurviveErrors ==
    [][(Step /\ last'.op \in {"TICK", "MSG"}) => proc' = "running"]_vars

\* C10: once the subscription is set up and router.Run has returned, main
\* stays in wg.Wait and the process does not exit
C10_BlocksForever ==
    [][(mqtt = "Subscribed" /\ mainpc = "Wait" /\ proc = "running") =>
        (mainpc' = "Wait" /\ wg' > 0 /\ proc' = "running")]_vars

====
